---- MODULE Spec2Model ----
(***************************************************************************)
(* Model of the RIPE Atlas measurement scheduler (scheduler.py) and of the *)
(* probe selector (select-probes.py).  Times are in seconds.  The campaign *)
(* clock `now` is the wall clock minus start_date.                         *)
(***************************************************************************)
EXTENDS Integers, Sequences, FiniteSets, TLC

VARIABLES
    all_probes,      \* main: the list returned by load_probes
    pc,              \* position of main (or of the function under study)
    thirty_mins,     \* main: loop variable of the round loop
    now,             \* wall clock, seconds since start_date
    current_probes,  \* main: ready set of the current round
    repeat,          \* main: loop variable of the repeat loop
    i,               \* run_in_batches: loop variable
    calls,           \* batches passed to func by the current run_in_batches
    requests,        \* creation requests issued by the current run_in_batches
    runs,            \* run_in_batches invocations of the current round
    sleeps,          \* time.sleep(60 * 5) calls of the current round
    filter_count,    \* number of times main has run the two filters
    filtered_at,     \* wall clock at which the current round ran its filters
    any_failed,      \* some create() call of the campaign returned failure
    t1,              \* ready_for_measurement: its argument (second of day)
    is_ready,        \* ready_for_measurement: its return value
    stats,           \* filter_by_eligibility: counters and returned subset
    ready_slots,     \* << zone, slot >> pairs for which a round found a probe ready
    traceroutes,     \* run_icmp_traceroute calls of the last schedule_measurements
    printed,         \* print_probes: the lines written to standard output
    tags_bad         \* tags_are_bad: its return value

vars == << all_probes, pc, thirty_mins, now, current_probes, repeat, i, calls,
           requests, runs, sleeps, filter_count, filtered_at, any_failed,
           t1, is_ready, stats, ready_slots, traceroutes, printed, tags_bad >>

(***************************************************************************)
(* Bounds of the model.                                                    *)
(***************************************************************************)
MaxProbes == 2          \* longest probe list given to the eligibility filter
MaxBatchInput == 120    \* longest probe list given to run_in_batches
MaxLead == 3600         \* the process starts at most this long before start_date
MaxLate == 5            \* ... or this long after it
MaxJitter == 1          \* sleep_until returns at most this long after its deadline
MaxDispatchSecs == 400  \* longest duration of one schedule_measurements call
MaxTags == 2            \* longest tag list given to tags_are_bad

(***************************************************************************)
(* Program constants.                                                      *)
(***************************************************************************)
None == "None"
Range(s) == { s[k] : k \in DOMAIN s }
SecsPerDay == 86400
V4_TARGET == ""
V6_TARGET == ""
API_KEY == ""
GRACE_PERIOD == 60
CC_LEN == 2
BAD_TAGS == << "system-geoloc-disputed", "core", "cloud", "vps", "ixp" >>
GOOD_TAGS ==
    << "deutsche-glasfaser", "dn42", "fiona", "freedom-internet", "fttb",
       "fttp", "gpnrp", "hybrid", "makerspace", "mesh", "openfiber", "pon",
       "ukraine", "verizon", "virgin-media", "6in4", "fiber", "frontier",
       "lxc", "swisscom", "bell", "cox-3", "fttp-2", "container", "fbnh",
       "fttb-2", "464xlat", "system-wifi", "telenet", "sixxs", "google-fiber",
       "system-flakey-power", "o2", "system-flakey-connection", "xfinity",
       "freifunk", "no-ipv4", "xs4all", "t-mobile", "kpn", "5g", "sfr",
       "ipv6nat", "spectrum", "att", "nat64", "wimax", "epix", "ipv6-only",
       "v5hitron", "starlink", "fttc", "twc", "3g", "6rd", "telekom",
       "system-resolves-aaaa-incorrectly", "known-ipv4-issues", "satellite",
       "vodafone", "ziggo", "docsis-31", "openwrt-3", "ds-lite", "6to4",
       "pi-hole", "nosi", "fios", "hackerspace", "upc", "pppoe", "vpn",
       "wi-fi", "docker", "he", "gpon", "homelab", "orange", "4g", "comcast",
       "cgn", "dtag", "mobile", "lte", "double-nat", "wireless-isp", "adsl",
       "docsis3", "ipv6-tunnel", "vdsl", "vdsl2", "ftth", "office", "dsl",
       "cable", "home", "nat" >>
BAD_STATUS_NAMES == << "Disconnected", "Abandoned" >>
\* the three lists as sets, for the `in` tests
BadTagSet == Range(BAD_TAGS)
GoodTagSet == Range(GOOD_TAGS)
BadStatusSet == Range(BAD_STATUS_NAMES)
\* dt.time(hour=h) as a second of the day
MEASUREMENT_TIMES ==
    << 0 * 3600, 3 * 3600, 6 * 3600, 9 * 3600,
       12 * 3600, 15 * 3600, 18 * 3600, 21 * 3600 >>

abs(x) == IF x < 0 THEN -x ELSE x

(***************************************************************************)
(* ready_for_measurement: both times are combined with today's date, so    *)
(* the difference is the same-day difference of the two seconds of day.    *)
(* The loop returns True at the first slot closer than GRACE_PERIOD.       *)
(***************************************************************************)
ready_for_measurement_wrap(t) ==
    \E k \in DOMAIN MEASUREMENT_TIMES :
        \/ abs(t - MEASUREMENT_TIMES[k]) < GRACE_PERIOD
        \/ SecsPerDay - abs(t - MEASUREMENT_TIMES[k]) < GRACE_PERIOD
ready_for_measurement(t) ==
    \E k \in DOMAIN MEASUREMENT_TIMES :
        abs(t - MEASUREMENT_TIMES[k]) < GRACE_PERIOD

(***************************************************************************)
(* Probe records, as load_probes returns them.  None stands for JSON null. *)
(***************************************************************************)
Probe(id, cc, tags, status, v4, v6, lat, lon) ==
    [ id |-> id, country_code |-> cc, tags |-> tags, status_name |-> status,
      address_v4 |-> v4, address_v6 |-> v6, latitude |-> lat, longitude |-> lon ]

startswith(str, prefix) ==
    /\ Len(str) >= Len(prefix)
    /\ SubSeq(str, 1, Len(prefix)) = prefix

\* tags_are_bad (the two scripts define it identically)
tags_are_bad_exact(tags) ==
    \E k \in DOMAIN tags : tags[k] \in BadTagSet
tags_are_bad(tags) ==
    \E k \in DOMAIN tags :
        \/ tags[k] \in BadTagSet
        \/ startswith(tags[k], "data-center")
        \/ startswith(tags[k], "datacenter")

\* any([t in GOOD_TAGS for t in probe[TAGS]])
has_good_tag_always(tags) == TRUE
has_good_tag(tags) == \E k \in DOMAIN tags : tags[k] \in GoodTagSet

\* pct asserts denominator > 0; the value is only logged
pct_raises(numerator, denominator) == ~(denominator > 0)

NoStats == [ raised |-> FALSE, returned |-> FALSE, subset |-> << >>,
             num_bad_cc |-> 0, num_bad_tags |-> 0, num_bad_status |-> 0,
             num_addrless |-> 0 ]

(***************************************************************************)
(* filter_by_eligibility.  The iterations of its loop are independent:     *)
(* each probe takes exactly one branch of the if-chain, which increments   *)
(* one counter and continues, appends the probe to subset_probes, or does  *)
(* nothing.  eligibility_branch names the branch a probe takes.            *)
(***************************************************************************)
eligibility_branch_tags_first(probe) ==
    IF tags_are_bad(probe.tags) THEN "num_bad_tags"
    ELSE IF probe.country_code = None \/ Len(probe.country_code) # CC_LEN
    THEN "num_bad_cc"
    ELSE IF probe.status_name \in BadStatusSet THEN "num_bad_status"
    ELSE IF probe.address_v4 = None /\ probe.address_v6 = None
    THEN "num_addrless"
    ELSE IF has_good_tag(probe.tags) THEN "subset_probes"
    ELSE "none"
eligibility_branch(probe) ==
    IF probe.country_code = None \/ Len(probe.country_code) # CC_LEN
    THEN "num_bad_cc"
    ELSE IF tags_are_bad(probe.tags) THEN "num_bad_tags"
    ELSE IF probe.status_name \in BadStatusSet THEN "num_bad_status"
    ELSE IF probe.address_v4 = None /\ probe.address_v6 = None
    THEN "num_addrless"
    ELSE IF has_good_tag(probe.tags) THEN "subset_probes"
    ELSE "none"

\* The summary log evaluates pct(counter, len(all_probes)) before returning.
filter_by_eligibility(probes) ==
    LET taken(branch) ==
            Cardinality({ k \in DOMAIN probes : eligibility_branch(probes[k]) = branch })
        appended(probe) == eligibility_branch(probe) = "subset_probes"
    IN  [ raised |-> pct_raises(taken("num_addrless"), Len(probes)),
          returned |-> ~pct_raises(taken("num_addrless"), Len(probes)),
          subset |-> SelectSeq(probes, appended),
          num_bad_cc |-> taken("num_bad_cc"),
          num_bad_tags |-> taken("num_bad_tags"),
          num_bad_status |-> taken("num_bad_status"),
          num_addrless |-> taken("num_addrless") ]

(***************************************************************************)
(* filter_probes of select-probes.py: the same rules in the same order.    *)
(***************************************************************************)
filter_probes_branch_keeps_addrless(probe) ==
    IF probe.country_code = None \/ Len(probe.country_code) # CC_LEN
    THEN "num_bad_cc"
    ELSE IF tags_are_bad(probe.tags) THEN "num_bad_tags"
    ELSE IF probe.status_name \in BadStatusSet THEN "num_bad_status"
    ELSE IF has_good_tag(probe.tags) THEN "subset_probes"
    ELSE "none"
filter_probes_branch(probe) ==
    IF probe.country_code = None \/ Len(probe.country_code) # CC_LEN
    THEN "num_bad_cc"
    ELSE IF tags_are_bad(probe.tags) THEN "num_bad_tags"
    ELSE IF probe.status_name \in BadStatusSet THEN "num_bad_status"
    ELSE IF probe.address_v4 = None /\ probe.address_v6 = None
    THEN "num_addrless"
    ELSE IF has_good_tag(probe.tags) THEN "subset_probes"
    ELSE "none"

filter_probes(probes) ==
    LET taken(branch) ==
            Cardinality({ k \in DOMAIN probes : filter_probes_branch(probes[k]) = branch })
        appended(probe) == filter_probes_branch(probe) = "subset_probes"
    IN  [ raised |-> pct_raises(taken("num_addrless"), Len(probes)),
          returned |-> ~pct_raises(taken("num_addrless"), Len(probes)),
          subset |-> SelectSeq(probes, appended),
          num_bad_cc |-> taken("num_bad_cc"),
          num_bad_tags |-> taken("num_bad_tags"),
          num_bad_status |-> taken("num_bad_status"),
          num_addrless |-> taken("num_addrless") ]

(***************************************************************************)
(* Geo-time resolution.  TZFinder.timezone_at and zoneinfo are libraries:  *)
(* the model knows the zones of a few places (whole degrees) and finds no  *)
(* zone anywhere else.  Offsets are those in force during a campaign.      *)
(***************************************************************************)
Gazetteer ==
    { [ lat |-> 52,  lon |-> 13,   tz |-> "Europe/Berlin" ],
      [ lat |-> 52,  lon |-> 0,    tz |-> "Europe/London" ],
      [ lat |-> 0,   lon |-> 13,   tz |-> "Africa/Libreville" ],
      [ lat |-> 2,   lon |-> -157, tz |-> "Pacific/Kiritimati" ],
      [ lat |-> 27,  lon |-> 85,   tz |-> "Asia/Kathmandu" ],
      [ lat |-> 40,  lon |-> -74,  tz |-> "America/New_York" ] }
timezone_at(lat, lon) ==
    IF \E g \in Gazetteer : g.lat = lat /\ g.lon = lon
    THEN (CHOOSE g \in Gazetteer : g.lat = lat /\ g.lon = lon).tz
    ELSE None
utcoffset(tz) ==
    CASE tz = "Europe/Berlin" -> 3600
      [] tz = "Europe/London" -> 0
      [] tz = "Africa/Libreville" -> 3600
      [] tz = "Pacific/Kiritimati" -> 14 * 3600
      [] tz = "Asia/Kathmandu" -> 5 * 3600 + 45 * 60
      [] tz = "America/New_York" -> -5 * 3600

\* lat_lon_to_timezone: the two assertions, then the zone
lat_lon_to_timezone_raises(lat, lon) ==
    \/ ~(lat # 0 /\ lon # 0)
    \/ ~(timezone_at(lat, lon) # "" /\ timezone_at(lat, lon) # None)
lat_lon_to_timezone(lat, lon) == timezone_at(lat, lon)

\* parse_date_utc14: start_date is midnight at UTC+14, so the UTC second of
\* day at campaign clock 0 is 24h - 14h.
parse_date_utc14 == (0 - 14 * 3600) % SecsPerDay

\* dt.datetime.now(tz=probe_tz).time() at campaign clock `at`
local_time(tz, at) == (parse_date_utc14 + at + utcoffset(tz)) % SecsPerDay

(***************************************************************************)
(* filter_by_time at campaign clock `at`.  An assertion of                 *)
(* lat_lon_to_timezone that fails inside the loop, or the assertion of pct *)
(* in the summary log, leaves the function by an AssertionError; otherwise *)
(* each probe is appended to subset_probes or counted in num_not_time.     *)
(***************************************************************************)
filter_by_time(probes, at) ==
    LET raises_in_loop ==
            \E k \in DOMAIN probes :
                lat_lon_to_timezone_raises(probes[k].latitude, probes[k].longitude)
        ready(probe) ==
            LET probe_tz == lat_lon_to_timezone(probe.latitude, probe.longitude)
                probe_time == local_time(probe_tz, at)
            IN  ready_for_measurement(probe_time)
        subset_probes == IF raises_in_loop THEN << >> ELSE SelectSeq(probes, ready)
        num_not_time == Len(probes) - Len(subset_probes)
    IN  [ raised |-> raises_in_loop \/ pct_raises(num_not_time, Len(probes)),
          subset |-> subset_probes,
          num_not_time |-> num_not_time ]

(***************************************************************************)
(* Python's str(int) for a non-negative identifier, and ",".join.          *)
(***************************************************************************)
Digit(d) == SubSeq("0123456789", d + 1, d + 1)
RECURSIVE str(_)
str(n) == IF n < 10 THEN Digit(n) ELSE str(n \div 10) \o Digit(n % 10)

\* ",".join([str(p[ID]) for p in probes[lo..hi]]), joined by halves
RECURSIVE join_ids(_, _, _)
join_ids(probes, lo, hi) ==
    IF lo > hi THEN ""
    ELSE IF lo = hi THEN str(probes[lo].id)
    ELSE LET mid == (lo + hi) \div 2
         IN  join_ids(probes, lo, mid) \o "," \o join_ids(probes, mid + 1, hi)

(***************************************************************************)
(* create_measurements and the request built by schedule_measurements.     *)
(***************************************************************************)
create_measurements_no_tcp(target, ip_version) ==
    << [ type |-> "sslcert", af |-> ip_version,
         description |-> "World-wide latency measurements", target |-> target,
         protocol |-> None, tags |-> << "geo-latency-measurements" >> ],
       [ type |-> "traceroute", af |-> ip_version,
         description |-> "World-wide latency measurements", target |-> target,
         protocol |-> "ICMP", tags |-> << "geo-latency-measurements" >> ] >>
create_measurements(target, ip_version) ==
    << [ type |-> "sslcert", af |-> ip_version,
         description |-> "World-wide latency measurements", target |-> target,
         protocol |-> None, tags |-> << "geo-latency-measurements" >> ],
       [ type |-> "traceroute", af |-> ip_version,
         description |-> "World-wide latency measurements", target |-> target,
         protocol |-> "ICMP", tags |-> << "geo-latency-measurements" >> ],
       [ type |-> "traceroute", af |-> ip_version,
         description |-> "World-wide latency measurements", target |-> target,
         protocol |-> "TCP", tags |-> << "geo-latency-measurements" >> ] >>

schedule_measurements_raises(probes) == ~(Len(probes) > 0)

(***************************************************************************)
(* ipaddress.ip_address(target).version for a string: the IPv4 parser is   *)
(* tried first, then the IPv6 parser, and ValueError is raised when both   *)
(* reject the string.  Of the IPv6 syntax the scope identifier ("%...")    *)
(* and the embedded dotted quad are left out: such a string is rejected    *)
(* here, and no probe of the model carries one.                            *)
(***************************************************************************)
SepPositions(text, sep) == { c \in 1 .. Len(text) : SubSeq(text, c, c) = sep }
\* text.split(sep) for a one-character separator
split(text, sep) ==
    LET pos == SepPositions(text, sep)
        n == Cardinality(pos)
        nth(j) == CHOOSE c \in pos : Cardinality({ d \in pos : d < c }) = j - 1
        first(j) == IF j = 1 THEN 1 ELSE nth(j - 1) + 1
        last(j) == IF j = n + 1 THEN Len(text) ELSE nth(j) - 1
    IN  [ j \in 1 .. (n + 1) |-> SubSeq(text, first(j), last(j)) ]
all_chars_in(text, chars) ==
    \A c \in 1 .. Len(text) :
        \E d \in 1 .. Len(chars) : SubSeq(text, c, c) = SubSeq(chars, d, d)
\* int(text) for a non-empty string of decimal digits
RECURSIVE int(_)
int(text) ==
    LET units == CHOOSE d \in 0 .. 9 : Digit(d) = SubSeq(text, Len(text), Len(text))
    IN  IF Len(text) = 1 THEN units
        ELSE 10 * int(SubSeq(text, 1, Len(text) - 1)) + units
\* IPv4Address: four octets of one to three decimal digits, without a
\* leading zero, each at most 255
is_ipv4(text) ==
    LET octets == split(text, ".")
    IN  /\ Len(octets) = 4
        /\ \A k \in DOMAIN octets :
              /\ octets[k] # ""
              /\ all_chars_in(octets[k], "0123456789")
              /\ Len(octets[k]) <= 3
              /\ ~(octets[k] # "0" /\ SubSeq(octets[k], 1, 1) = "0")
              /\ int(octets[k]) <= 255
\* IPv6Address: three to nine colon-separated parts, at most one "::" which
\* stands for at least one hextet, a leading or trailing ":" only as part
\* of the "::", and hextets of one to four hexadecimal digits
is_ipv6(text) ==
    LET parts == split(text, ":")
        n == Len(parts)
        skips == { k \in 2 .. (n - 1) : parts[k] = "" }
        skip_index == CHOOSE k \in skips : TRUE
        parts_hi == IF parts[1] = "" THEN skip_index - 2 ELSE skip_index - 1
        parts_lo == IF parts[n] = "" THEN n - skip_index - 1 ELSE n - skip_index
        hextet(k) ==
            /\ parts[k] # ""
            /\ Len(parts[k]) <= 4
            /\ all_chars_in(parts[k], "0123456789abcdefABCDEF")
    IN  /\ n >= 3
        /\ n <= 9
        /\ Cardinality(skips) <= 1
        /\ IF skips # { }
           THEN /\ parts[1] = "" => skip_index - 1 = 1
                /\ parts[n] = "" => n - skip_index = 1
                /\ 8 - (parts_hi + parts_lo) >= 1
                /\ \A k \in 1 .. (skip_index - 1) : (k = 1 /\ parts[1] = "") \/ hextet(k)
                /\ \A k \in (skip_index + 1) .. n : (k = n /\ parts[n] = "") \/ hextet(k)
           ELSE /\ n = 8
                /\ \A k \in 1 .. n : hextet(k)
ip_address(target) ==
    IF is_ipv4(target) THEN [ version |-> 4, raised |-> FALSE ]
    ELSE IF is_ipv6(target) THEN [ version |-> 6, raised |-> FALSE ]
    ELSE [ version |-> 0, raised |-> TRUE ]

(***************************************************************************)
(* run_icmp_traceroute(target): the calls it makes.  A string that is no   *)
(* IP literal is logged and the function returns; otherwise os.system      *)
(* starts the traceroute in the background.                                *)
(***************************************************************************)
run_icmp_traceroute_unchecked(target) ==
    << [ call |-> "os.system",
         arg |-> "traceroute -4 --icmp -n " \o target \o " > tr/" \o target
                   \o ".log 2>tr/" \o target \o ".err &" ] >>
run_icmp_traceroute(target) ==
    LET address == ip_address(target)
        file_name == "tr/" \o target
        cmd == "traceroute -" \o str(address.version) \o " --icmp -n " \o target
                 \o " > " \o file_name \o ".log 2>" \o file_name \o ".err &"
    IN  IF address.raised
        THEN << [ call |-> "log.error", arg |-> target ] >>
        ELSE << [ call |-> "os.system", arg |-> cmd ] >>

\* the loop at the end of schedule_measurements over probes[lo..hi], its
\* iterations concatenated by halves
RECURSIVE trace_probes(_, _, _)
trace_probes(probes, lo, hi) ==
    IF lo > hi THEN << >>
    ELSE IF lo = hi
    THEN (IF probes[lo].address_v4 # None
          THEN run_icmp_traceroute(probes[lo].address_v4) ELSE << >>)
           \o (IF probes[lo].address_v6 # None
               THEN run_icmp_traceroute(probes[lo].address_v6) ELSE << >>)
    ELSE trace_probes(probes, lo, (lo + hi) \div 2)
           \o trace_probes(probes, (lo + hi) \div 2 + 1, hi)

atlas_request(probes, at) ==
    LET probe_ids == join_ids(probes, 1, Len(probes))
        v4_measurements == create_measurements(V4_TARGET, 4)
        v6_measurements == create_measurements(V6_TARGET, 6)
        source == [ value |-> probe_ids, requested |-> Len(probe_ids),
                    type |-> "probes", action |-> "add" ]
    IN  [ start_time |-> at, key |-> API_KEY,
          measurements |-> v4_measurements \o v6_measurements,
          sources |-> << source >>, is_oneoff |-> TRUE ]

(***************************************************************************)
(* Values of the variables a specification does not use.                   *)
(***************************************************************************)
IdleCampaign ==
    /\ all_probes = << >>
    /\ thirty_mins = 0
    /\ now = 0
    /\ current_probes = << >>
    /\ repeat = 0
    /\ i = 0
    /\ calls = << >>
    /\ requests = << >>
    /\ runs = << >>
    /\ sleeps = 0
    /\ filter_count = 0
    /\ filtered_at = 0
    /\ any_failed = FALSE
    /\ ready_slots = { }
    /\ traceroutes = << >>

campaign_vars == << all_probes, thirty_mins, now, current_probes, repeat, i,
                    calls, requests, runs, sleeps, filter_count, filtered_at,
                    any_failed, ready_slots, traceroutes >>

(***************************************************************************)
(* SpecReady: ready_for_measurement applied to every second of the day.    *)
(***************************************************************************)
InitReady ==
    /\ IdleCampaign
    /\ pc = "ready_for_measurement"
    /\ t1 \in 0 .. (SecsPerDay - 1)
    /\ is_ready = None
    /\ printed = << >>
    /\ tags_bad = None
    /\ stats = NoStats

CallReady ==
    /\ pc = "ready_for_measurement"
    /\ is_ready' = ready_for_measurement(t1)
    /\ pc' = "returned"
    /\ UNCHANGED << campaign_vars, t1, stats, printed, tags_bad >>

NextReady == CallReady

SpecReady == InitReady /\ [][NextReady]_vars

\* C1: ready_for_measurement(t) is true exactly when the smallest same-day
\* distance in seconds from t to one of the slots 00:00, 03:00, ..., 21:00 is
\* below 60; there is no wrap across midnight, so 23:59:01..23:59:59 are not
\* ready, 00:00:59 and 20:59:05 are ready, 00:01:00 and 20:58:00 are not.
Slots == { 3 * 3600 * h : h \in 0 .. 7 }
MinSlotDistance(t) ==
    CHOOSE d \in { abs(t - s) : s \in Slots } :
        \A e \in { abs(t - s) : s \in Slots } : d <= e
HMS(h, m, s) == h * 3600 + m * 60 + s
C1_ReadyIffWithinGrace ==
    pc = "returned" =>
        /\ is_ready = (MinSlotDistance(t1) < 60)
        /\ t1 \in HMS(23, 59, 1) .. HMS(23, 59, 59) => is_ready = FALSE
        /\ t1 \in { HMS(0, 0, 59), HMS(20, 59, 5) } => is_ready = TRUE
        /\ t1 \in { HMS(0, 1, 0), HMS(20, 58, 0) } => is_ready = FALSE
C1_Witness ==
    /\ pc = "returned"
    /\ t1 = HMS(23, 59, 30)
    /\ is_ready = FALSE

(***************************************************************************)
(* The campaign: main of scheduler.py.                                     *)
(***************************************************************************)
num_rounds == 50 * 2
num_repeats == 3
batch_size == 50
round_secs == 30 * 60
repeat_sleep_secs_short == 60 * 4
repeat_sleep_secs == 60 * 5

Berlin(id) ==
    Probe(id, "DE", << "home" >>, "Connected", "192.0.2.1", None, 52, 13)
Kiritimati(id) ==
    Probe(id, "KI", << "ipv6-only", "system-v3" >>, "Connected", None,
          "2001:db8::1", 2, -157)
Kathmandu(id) ==
    Probe(id, "NP", << "fiber" >>, "Connected", "192.0.2.3", "2001:db8::3", 27, 85)
BadCc(id) ==
    Probe(id, "USA", << "home" >>, "Connected", "192.0.2.4", None, 40, -74)
BadCcZeroLat(id) ==
    Probe(id, None, << "home" >>, "Connected", "192.0.2.5", None, 0, 13)
ZeroLat(id) ==
    Probe(id, "GA", << "home" >>, "Connected", "192.0.2.6", None, 0, 13)
ZeroLon(id) ==
    Probe(id, "GB", << "home" >>, "Connected", "192.0.2.7", None, 52, 0)
NoZone(id) ==
    Probe(id, "CL", << "satellite" >>, "Connected", "192.0.2.8", None, -60, -120)

CampaignLists ==
    { << >>,
      << Berlin(1) >>,
      << BadCc(1) >>,
      << Berlin(1), BadCc(2), Kiritimati(3) >>,
      << Berlin(1), ZeroLat(2) >>,
      << ZeroLon(7), Kiritimati(8) >>,
      << NoZone(1), Berlin(2) >>,
      << Kathmandu(1), BadCcZeroLat(2) >>,
      [ k \in 1 .. (batch_size + 1) |-> Kiritimati(k) ] }

Aborted == pc \in { "AssertionError", "ValueError" }

Init ==
    /\ all_probes \in CampaignLists
    /\ pc = "sleep_until"
    /\ thirty_mins = 0
    /\ now \in { 0 - MaxLead, 0, MaxLate }
    /\ current_probes = << >>
    /\ repeat = 0
    /\ i = 0
    /\ calls = << >>
    /\ requests = << >>
    /\ runs = << >>
    /\ sleeps = 0
    /\ filter_count = 0
    /\ filtered_at = 0
    /\ any_failed = FALSE
    /\ ready_slots = { }
    /\ traceroutes = << >>
    /\ t1 = 0
    /\ is_ready = None
    /\ printed = << >>
    /\ tags_bad = None
    /\ stats = NoStats

\* sleep_until(start_date + thirty_mins * 30 minutes): time.sleep raises
\* ValueError on a negative number of seconds, and otherwise returns at the
\* wake instant or a little later.
SleepUntilNoWait ==
    /\ pc = "sleep_until"
    /\ pc' = "filter"
    /\ UNCHANGED << all_probes, ready_slots, traceroutes, thirty_mins, now,
                    current_probes, repeat, i,
                    calls, requests, runs, sleeps, filter_count, filtered_at,
                    any_failed, t1, is_ready, stats, printed, tags_bad >>
SleepUntil ==
    /\ pc = "sleep_until"
    /\ LET datetime == thirty_mins * round_secs
           num_secs == datetime - now
       IN  IF num_secs < 0
           THEN /\ pc' = "ValueError"
                /\ now' = now
           ELSE /\ pc' = "filter"
                /\ \E late \in 0 .. MaxJitter : now' = now + num_secs + late
    /\ UNCHANGED << all_probes, ready_slots, traceroutes, thirty_mins,
                    current_probes, repeat, i, calls,
                    requests, runs, sleeps, filter_count, filtered_at,
                    any_failed, t1, is_ready, stats, printed, tags_bad >>

\* The << zone, slot >> pairs of a ready set found at campaign clock `at`:
\* the zone of each of its probes with the slots its local time is close to.
slots_found_ready(probes, at) ==
    UNION { LET probe_tz == lat_lon_to_timezone(probes[k].latitude, probes[k].longitude)
                probe_time == local_time(probe_tz, at)
            IN  { << probe_tz, slot >> :
                    slot \in { m \in DOMAIN MEASUREMENT_TIMES :
                                 abs(probe_time - MEASUREMENT_TIMES[m]) < GRACE_PERIOD } } :
            k \in DOMAIN probes }

\* current_probes = filter_by_time(filter_by_eligibility(all_probes)) and the
\* test len(current_probes) > 0
Filter ==
    /\ pc = "filter"
    /\ filter_count' = filter_count + 1
    /\ filtered_at' = now
    /\ sleeps' = 0
    /\ LET eligible == filter_by_eligibility(all_probes)
           by_time == filter_by_time(eligible.subset, now)
       IN  IF eligible.raised \/ by_time.raised
           THEN /\ pc' = "AssertionError"
                /\ runs' = << >>
                /\ UNCHANGED << current_probes, repeat, i, calls, requests,
                                ready_slots >>
           ELSE /\ current_probes' = by_time.subset
                /\ ready_slots' = ready_slots \cup slots_found_ready(by_time.subset, now)
                /\ IF Len(current_probes') > 0
                   THEN /\ pc' = "run_in_batches"
                        /\ repeat' = 0
                        /\ i' = 0
                        /\ calls' = << >>
                        /\ requests' = << >>
                        /\ runs' = << [ probes |-> current_probes', start |-> now, end |-> now ] >>
                   ELSE /\ pc' = "round_done"
                        /\ runs' = << >>
                        /\ UNCHANGED << repeat, i, calls, requests >>
    /\ UNCHANGED << all_probes, traceroutes, thirty_mins, now, any_failed, t1,
                    is_ready, stats, printed, tags_bad >>

\* One iteration of run_in_batches: func(probes[i : i + batch_size]) with
\* func = schedule_measurements, whose create() call succeeds or fails.
SliceFromNext(probes, from, to) ==
    SubSeq(probes, from + 2, IF to < Len(probes) THEN to ELSE Len(probes))
SliceInclusive(probes, from, to) ==
    SubSeq(probes, from + 1, IF to + 1 < Len(probes) THEN to + 1 ELSE Len(probes))
Slice(probes, from, to) ==
    SubSeq(probes, from + 1, IF to < Len(probes) THEN to ELSE Len(probes))

RunBatch ==
    /\ pc = "run_in_batches"
    /\ i < Len(current_probes)
    /\ LET batch == Slice(current_probes, i, i + batch_size)
       IN  IF schedule_measurements_raises(batch)
           THEN /\ pc' = "AssertionError"
                /\ UNCHANGED << now, i, calls, requests, runs, any_failed,
                                traceroutes >>
           ELSE /\ calls' = Append(calls, batch)
                /\ traceroutes' = trace_probes(batch, 1, Len(batch))
                /\ requests' = Append(requests, atlas_request(batch, now))
                /\ \E is_success \in BOOLEAN, took \in { 0, MaxDispatchSecs } :
                     /\ any_failed' = (any_failed \/ ~is_success)
                     /\ now' = now + took
                /\ runs' = [runs EXCEPT ![Len(runs)].end = now']
                /\ i' = i + batch_size
                /\ pc' = pc
    /\ UNCHANGED << all_probes, ready_slots, thirty_mins, current_probes, repeat, sleeps,
                    filter_count, filtered_at, t1, is_ready, stats, printed, tags_bad >>

\* run_in_batches has returned: time.sleep(60 * 5), then the next repeat or
\* the end of the round.  The sleep is taken to last exactly its argument; a
\* late return is not told apart from a longer schedule_measurements call.
RepeatSleep ==
    /\ pc = "run_in_batches"
    /\ i >= Len(current_probes)
    /\ now' = now + repeat_sleep_secs
    /\ sleeps' = sleeps + 1
    /\ repeat' = repeat + 1
    /\ IF repeat + 1 < num_repeats
       THEN /\ pc' = pc
            /\ i' = 0
            /\ calls' = << >>
            /\ requests' = << >>
            /\ runs' = Append(runs, [ probes |-> current_probes, start |-> now', end |-> now' ])
       ELSE /\ pc' = "round_done"
            /\ UNCHANGED << i, calls, requests, runs >>
    /\ UNCHANGED << all_probes, ready_slots, traceroutes, thirty_mins, current_probes, filter_count,
                    filtered_at, any_failed, t1, is_ready, stats, printed, tags_bad >>

\* "Done with current hour.", then the next round or "Done with measurements."
RoundDone ==
    /\ pc = "round_done"
    /\ IF thirty_mins + 1 < num_rounds
       THEN /\ thirty_mins' = thirty_mins + 1
            /\ pc' = "sleep_until"
       ELSE /\ thirty_mins' = thirty_mins
            /\ pc' = "done"
    /\ UNCHANGED << all_probes, ready_slots, traceroutes, now, current_probes, repeat, i, calls,
                    requests, runs, sleeps, filter_count, filtered_at,
                    any_failed, t1, is_ready, stats, printed, tags_bad >>

Next == SleepUntil \/ Filter \/ RunBatch \/ RepeatSleep \/ RoundDone

Spec == Init /\ [][Next]_vars

(***************************************************************************)
(* What the specification calls the eligible probes and the ready set.     *)
(***************************************************************************)
Eligible(p) ==
    /\ ~(p.country_code = None \/ Len(p.country_code) # 2)
    /\ ~tags_are_bad(p.tags)
    /\ p.status_name \notin { "Disconnected", "Abandoned" }
    /\ ~(p.address_v4 = None /\ p.address_v6 = None)
    /\ has_good_tag(p.tags)
Unresolvable(p) ==
    p.latitude = 0 \/ p.longitude = 0 \/ timezone_at(p.latitude, p.longitude) = None
ReadyAt(p, at) ==
    /\ Eligible(p)
    /\ ~Unresolvable(p)
    /\ ready_for_measurement(local_time(timezone_at(p.latitude, p.longitude), at))
ReadySet(at) ==
    LET isReady(p) == ReadyAt(p, at) IN SelectSeq(all_probes, isReady)

\* C2: the campaign has exactly 100 rounds k = 0..99 run in increasing k;
\* round k runs the two filters only once the wall clock has reached
\* start + 30*k minutes, on the probe list as loaded, and only after round
\* k-1 has finished.
C2_RoundsInOrderAfterWake ==
    /\ [](thirty_mins \in 0 .. 99 /\ filter_count \in 0 .. 100)
    /\ [][all_probes' = all_probes]_vars
    /\ [][(pc = "filter" /\ pc' \in { "run_in_batches", "round_done" }) =>
            current_probes' = ReadySet(now)]_vars
    /\ [](pc = "filter" => now >= thirty_mins * 30 * 60)
    /\ [](filter_count > 0 => filtered_at >= (filter_count - 1) * 30 * 60)
    /\ [](pc = "done" => filter_count = 100 /\ thirty_mins = 99)
    /\ [][filter_count' # filter_count =>
            /\ filter_count = thirty_mins
            /\ filter_count' = filter_count + 1
            /\ pc = "filter"
            /\ filtered_at' >= thirty_mins * 30 * 60]_vars
    /\ [][thirty_mins' # thirty_mins =>
            /\ thirty_mins' = thirty_mins + 1
            /\ pc = "round_done"
            /\ filter_count = thirty_mins + 1]_vars
C2_Witness ==
    /\ pc = "done"
    /\ filter_count = 100
    /\ filtered_at >= 99 * 30 * 60
    /\ any_failed

\* C3: in a round with a non-empty ready set the dispatcher runs exactly
\* three times, each time on the ready set computed when the round ran its
\* filters, and consecutive runs are at least 5 minutes apart; in a round with
\* an empty ready set it does not run.
C3_ThreeRunsOnSameReadySet ==
    /\ Len(runs) <= 3
    /\ \A j \in DOMAIN runs : runs[j].probes = ReadySet(filtered_at)
    /\ \A j \in DOMAIN runs : j > 1 => runs[j].start >= runs[j - 1].end + 5 * 60
    /\ pc = "round_done" =>
          IF Len(ReadySet(filtered_at)) > 0 THEN Len(runs) = 3 ELSE Len(runs) = 0
C3_Witness ==
    /\ pc = "round_done"
    /\ Len(runs) = 3
    /\ Len(runs[1].probes) > 1
    /\ runs[3].probes = ReadySet(filtered_at)
    /\ ReadySet(now) = << >>

\* C4: whatever the probe list and whatever the outcomes of the create()
\* calls, the campaign runs to "Done with measurements": no round ends it.
\* Its safety part for the assertions of the code: main is never left through
\* a failed assertion.
C4_CampaignNeverAborts == pc # "AssertionError"

\* C5: in a round whose ready set is empty, also when no probe at all is
\* eligible, the scheduler dispatches nothing, does not suspend, and goes on
\* to the next round.  (Lists with an unresolvable eligible probe are C6's.)
NoEligibleUnresolvable ==
    \A k \in DOMAIN all_probes :
        Eligible(all_probes[k]) => ~Unresolvable(all_probes[k])
C5_EmptyRoundAdvances ==
    [][(pc = "filter" /\ all_probes # << >> /\ NoEligibleUnresolvable
          /\ ReadySet(now) = << >>) =>
          /\ pc' = "round_done"
          /\ runs' = << >>
          /\ sleeps' = 0
          /\ now' = now]_vars

\* C6: an eligible probe with a zero latitude or longitude, or with
\* coordinates in no time zone, is left out of the ready set; the other
\* probes are still evaluated, the round goes on, the campaign is not aborted.
SomeEligibleUnresolvable == ~NoEligibleUnresolvable
C6_UnresolvableProbeOnlyExcluded ==
    [][(pc = "filter" /\ SomeEligibleUnresolvable) =>
          /\ pc' \in { "run_in_batches", "round_done" }
          /\ current_probes' = ReadySet(now)]_vars

\* C11: started at midnight UTC+14 with a round every 30 minutes for 50
\* hours, a completed campaign has found a probe of every zone ready for each
\* of the eight daily slots at least once.  A zone is represented by the
\* eligible probes located in it.
C11_EveryZoneEverySlot ==
    pc = "done" =>
        \A k \in DOMAIN all_probes :
            (Eligible(all_probes[k]) /\ ~Unresolvable(all_probes[k])) =>
                \A slot \in DOMAIN MEASUREMENT_TIMES :
                    << timezone_at(all_probes[k].latitude, all_probes[k].longitude),
                       slot >> \in ready_slots

\* C15: in a round with a non-empty ready set the 5-minute suspensions occur
\* only between repeats: the round is over after exactly two of them, the
\* third dispatch being followed by no suspension.
C15_TwoSuspensionsPerRound ==
    (pc = "round_done" /\ runs # << >>) => sleeps = 2

\* C17: when the wake instant of a round has already passed at the call of
\* sleep_until, the scheduler does not suspend and runs the round at once;
\* the campaign goes on and still runs its 100 rounds.
C17_LateRoundRunsAtOnce ==
    [][(pc = "sleep_until" /\ now > thirty_mins * 30 * 60) =>
          (pc' = "filter" /\ now' = now)]_vars

\* C18: the assertion len(probes) > 0 of schedule_measurements holds on every
\* call of a campaign: run_in_batches never passes an empty batch, and main
\* calls run_in_batches only with a non-empty ready set.
C18_NoEmptyBatch ==
    /\ [](\A j \in DOMAIN calls : Len(calls[j]) > 0)
    /\ [](\A j \in DOMAIN runs : Len(runs[j].probes) > 0)
    /\ [](pc = "run_in_batches" => Len(current_probes) > 0)
    /\ [][pc = "run_in_batches" => pc' # "AssertionError"]_vars
C18_Witness ==
    /\ pc = "run_in_batches"
    /\ Len(current_probes) = 51
    /\ Len(calls) = 2
    /\ Len(calls[2]) = 1
    /\ repeat = 2

(***************************************************************************)
(* SpecBatch: run_in_batches(probes, schedule_measurements) on every list  *)
(* of at most MaxBatchInput probes.  The identifiers descend, so the input *)
(* order is not the sorted order, and have one to three digits.  A probe   *)
(* has an IPv4 address, an IPv6 address or both, and one of the two may be *)
(* no IP literal.                                                          *)
(***************************************************************************)
BatchProbe(id) ==
    LET v4 == CASE id % 4 = 0 -> "192.0.2.1"
                [] id % 4 = 1 -> None
                [] id % 4 = 2 -> "192.0.2.256"
                [] id % 4 = 3 -> "192.0.2.3"
        v6 == CASE id % 4 = 0 -> None
                [] id % 4 = 1 -> "2001:db8::1"
                [] id % 4 = 2 -> "2001:db8::2"
                [] id % 4 = 3 -> "2001:db8:::3"
    IN  Probe(id, "KI", << "system-v3" >>, "Connected", v4, v6, 2, -157)

InitBatch ==
    /\ pc = "run_in_batches"
    /\ \E n \in 0 .. MaxBatchInput :
          current_probes = [ k \in 1 .. n |-> BatchProbe(n + 1 - k) ]
    /\ all_probes = current_probes
    /\ runs = << [ probes |-> current_probes, start |-> 0, end |-> 0 ] >>
    /\ thirty_mins = 0
    /\ now = 0
    /\ repeat = 0
    /\ i = 0
    /\ calls = << >>
    /\ requests = << >>
    /\ sleeps = 0
    /\ filter_count = 0
    /\ filtered_at = 0
    /\ any_failed = FALSE
    /\ ready_slots = { }
    /\ traceroutes = << >>
    /\ t1 = 0
    /\ is_ready = None
    /\ printed = << >>
    /\ tags_bad = None
    /\ stats = NoStats

\* the loop of run_in_batches is exhausted and the function returns
BatchesReturn ==
    /\ pc = "run_in_batches"
    /\ i >= Len(current_probes)
    /\ pc' = "run_in_batches returned"
    /\ UNCHANGED << all_probes, ready_slots, traceroutes, thirty_mins, now,
                    current_probes, repeat, i,
                    calls, requests, runs, sleeps, filter_count, filtered_at,
                    any_failed, t1, is_ready, stats, printed, tags_bad >>

NextBatch == RunBatch \/ BatchesReturn

SpecBatch == InitBatch /\ [][NextBatch]_vars

RECURSIVE Concat(_, _)
Concat(seqs, k) == IF k > Len(seqs) THEN << >> ELSE seqs[k] \o Concat(seqs, k + 1)
CeilDiv(n, d) == (n + d - 1) \div d

\* C9: for a list of N probes run_in_batches calls the dispatch function
\* ceil(N/50) times, every batch has 1 to 50 probes, and the batches in call
\* order concatenate to the input list; N = 120 gives batches of 50, 50, 20.
C9_BatchesPartitionInput ==
    /\ \A j \in DOMAIN calls : Len(calls[j]) >= 1 /\ Len(calls[j]) <= 50
    /\ Len(calls) <= CeilDiv(Len(current_probes), 50)
    /\ pc = "run_in_batches returned" =>
          /\ Len(calls) = CeilDiv(Len(current_probes), 50)
          /\ Concat(calls, 1) = current_probes
          /\ Len(current_probes) = 120 =>
                << Len(calls[1]), Len(calls[2]), Len(calls[3]) >> = << 50, 50, 20 >>
C9_Witness ==
    /\ pc = "run_in_batches returned"
    /\ Len(current_probes) = 120
    /\ Len(calls) = 3
    /\ Len(calls[3]) = 20

(***************************************************************************)
(* Reading back the identifiers of a source value "id,id,...".             *)
(***************************************************************************)
DigitValue(c) == CHOOSE d \in 0 .. 9 : Digit(d) = c
RECURSIVE ParseInt(_)
ParseInt(text) ==
    IF Len(text) = 1 THEN DigitValue(text)
    ELSE 10 * ParseInt(SubSeq(text, 1, Len(text) - 1))
           + DigitValue(SubSeq(text, Len(text), Len(text)))
CommaPositions(text) == { c \in 1 .. Len(text) : SubSeq(text, c, c) = "," }
\* split at the comma nearest the middle, and read the two halves
RECURSIVE ParseIds(_)
ParseIds(text) ==
    LET commas == CommaPositions(text)
        mid == (Len(text) + 1) \div 2
        at == CHOOSE c \in commas : \A d \in commas : abs(c - mid) <= abs(d - mid)
    IN  IF text = "" THEN << >>
        ELSE IF commas = { } THEN << ParseInt(text) >>
        ELSE ParseIds(SubSeq(text, 1, at - 1))
               \o ParseIds(SubSeq(text, at + 1, Len(text)))

SpecsOf(request, af) ==
    { k \in DOMAIN request.measurements : request.measurements[k].af = af }
OneSpec(request, af, type, protocol, target) ==
    Cardinality({ k \in SpecsOf(request, af) :
                    /\ request.measurements[k].type = type
                    /\ request.measurements[k].protocol = protocol
                    /\ request.measurements[k].target = target }) = 1

\* C10: each batch dispatch issues exactly one one-off creation request; it
\* carries exactly six specs: a certificate retrieval, an ICMP traceroute and
\* a TCP traceroute for each of the IPv4 and the IPv6 target; its single
\* source names the batch's probe identifiers in batch order.
C10_OneRequestSixSpecs ==
    /\ Len(requests) = Len(calls)
    /\ \A j \in DOMAIN requests :
          /\ requests[j].is_oneoff = TRUE
          /\ Len(requests[j].measurements) = 6
          /\ Cardinality(SpecsOf(requests[j], 4)) = 3
          /\ Cardinality(SpecsOf(requests[j], 6)) = 3
          /\ OneSpec(requests[j], 4, "sslcert", None, V4_TARGET)
          /\ OneSpec(requests[j], 4, "traceroute", "ICMP", V4_TARGET)
          /\ OneSpec(requests[j], 4, "traceroute", "TCP", V4_TARGET)
          /\ OneSpec(requests[j], 6, "sslcert", None, V6_TARGET)
          /\ OneSpec(requests[j], 6, "traceroute", "ICMP", V6_TARGET)
          /\ OneSpec(requests[j], 6, "traceroute", "TCP", V6_TARGET)
          /\ Len(requests[j].sources) = 1
          /\ requests[j].sources[1].type = "probes"
          /\ ParseIds(requests[j].sources[1].value)
               = [ k \in 1 .. Len(calls[j]) |-> calls[j][k].id ]
C10_Witness ==
    /\ pc = "run_in_batches returned"
    /\ Len(requests) = 3
    /\ Len(calls[3]) = 20
    /\ ParseIds(requests[3].sources[1].value) = [ k \in 1 .. 20 |-> 21 - k ]
    /\ any_failed

\* the non-null addresses of probes[lo..hi], IPv4 before IPv6, in probe order
RECURSIVE AddressesOf(_, _, _)
AddressesOf(probes, lo, hi) ==
    IF lo > hi THEN << >>
    ELSE IF lo = hi
    THEN SelectSeq(<< probes[lo].address_v4, probes[lo].address_v6 >>,
                   LAMBDA a : a # None)
    ELSE AddressesOf(probes, lo, (lo + hi) \div 2)
           \o AddressesOf(probes, (lo + hi) \div 2 + 1, hi)
ValidIPv4 == { "192.0.2.1", "192.0.2.3" }
ValidIPv6 == { "2001:db8::1", "2001:db8::2" }
TracerouteOf(a) ==
    IF a \in ValidIPv4
    THEN [ call |-> "os.system",
           arg |-> "traceroute -4 --icmp -n " \o a \o " > tr/" \o a \o ".log 2>tr/"
                     \o a \o ".err &" ]
    ELSE IF a \in ValidIPv6
    THEN [ call |-> "os.system",
           arg |-> "traceroute -6 --icmp -n " \o a \o " > tr/" \o a \o ".log 2>tr/"
                     \o a \o ".err &" ]
    ELSE [ call |-> "log.error", arg |-> a ]

\* C12: in every batch dispatch, whether create() succeeded or failed, a
\* traceroute is launched for every non-null IPv4 and IPv6 address of every
\* probe of the batch, in probe order; an address that is no valid IP
\* literal is logged and skipped, and the traceroutes of the addresses and
\* probes after it are still launched.
C12_TracerouteEveryAddress ==
    /\ Len(requests) = Len(calls)
    /\ calls # << >> =>
          LET batch == calls[Len(calls)]
              addresses == AddressesOf(batch, 1, Len(batch))
          IN  traceroutes = [ j \in 1 .. Len(addresses) |-> TracerouteOf(addresses[j]) ]
C12_Witness ==
    /\ pc = "run_in_batches returned"
    /\ any_failed
    /\ Len(calls) = 3
    /\ \E j \in DOMAIN traceroutes :
          /\ traceroutes[j].call = "log.error"
          /\ traceroutes[j].arg = "192.0.2.256"
          /\ j + 1 \in DOMAIN traceroutes
          /\ traceroutes[j + 1].call = "os.system"
          /\ traceroutes[Len(traceroutes)].call = "os.system"

\* C19: in every creation request the 'requested' count of the probe source
\* is the number of probes of the batch, between 1 and 50.
C19_RequestedIsBatchSize ==
    \A j \in DOMAIN requests :
        /\ requests[j].sources[1].requested = Len(calls[j])
        /\ requests[j].sources[1].requested \in 1 .. 50

(***************************************************************************)
(* SpecFilter: the eligibility filter of either script applied to every    *)
(* list of at most MaxProbes probes drawn from ProbeKinds.                 *)
(***************************************************************************)
CountryCodes == { None, "US", "USA" }
TagLists == { << "home" >>, << "home", "cloud" >>, << "datacenter-3" >>,
              << "system-v3" >> }
StatusNames == { "Connected", "Disconnected" }
AddressPairs == { << None, None >>, << "192.0.2.1", None >>,
                  << None, "2001:db8::1" >> }

ProbeLists(n) ==
    { [ k \in 1 .. n |->
          Probe(k, f[k][1], f[k][2], f[k][3], f[k][4][1], f[k][4][2], 52, 13) ] :
      f \in [ 1 .. n -> CountryCodes \X TagLists \X StatusNames \X AddressPairs ] }

InitFilter ==
    /\ pc = "filter"
    /\ \E n \in 0 .. MaxProbes : all_probes \in ProbeLists(n)
    /\ stats = NoStats
    /\ thirty_mins = 0
    /\ now = 0
    /\ current_probes = << >>
    /\ repeat = 0
    /\ i = 0
    /\ calls = << >>
    /\ requests = << >>
    /\ runs = << >>
    /\ sleeps = 0
    /\ filter_count = 0
    /\ filtered_at = 0
    /\ any_failed = FALSE
    /\ ready_slots = { }
    /\ traceroutes = << >>
    /\ t1 = 0
    /\ is_ready = None
    /\ printed = << >>
    /\ tags_bad = None

CallFilterByEligibility ==
    /\ pc = "filter"
    /\ stats' = filter_by_eligibility(all_probes)
    /\ pc' = "filter_by_eligibility done"
    /\ UNCHANGED << campaign_vars, t1, is_ready, printed, tags_bad >>

CallFilterProbes ==
    /\ pc = "filter"
    /\ stats' = filter_probes(all_probes)
    /\ pc' = "filter_probes done"
    /\ UNCHANGED << campaign_vars, t1, is_ready, printed, tags_bad >>

NextFilter == CallFilterByEligibility \/ CallFilterProbes

SpecFilter == InitFilter /\ [][NextFilter]_vars

BadCountryCode(p) == p.country_code = None \/ Len(p.country_code) # 2
BadTags(p) ==
    \E k \in DOMAIN p.tags :
        \/ p.tags[k] \in { "system-geoloc-disputed", "core", "cloud", "vps", "ixp" }
        \/ startswith(p.tags[k], "data-center")
        \/ startswith(p.tags[k], "datacenter")
BadStatus(p) == p.status_name \in { "Disconnected", "Abandoned" }
Addressless(p) == p.address_v4 = None /\ p.address_v6 = None
Disqualified(p) == BadCountryCode(p) \/ BadTags(p) \/ BadStatus(p) \/ Addressless(p)
NoGoodTag(p) == \A k \in DOMAIN p.tags : p.tags[k] \notin GoodTagSet
Count(probes, P(_)) == Cardinality({ k \in DOMAIN probes : P(probes[k]) })
FilterDone == pc \in { "filter_by_eligibility done", "filter_probes done" }

\* C7: the rules are evaluated in the order country code, bad tags, bad
\* status, addressless, and a rejected probe is counted once, under the first
\* rule it fails; a probe with a null or non-2-character country code (such as
\* "USA") is counted under bad-country-code only, whatever its other fields.
FirstCc(p) == BadCountryCode(p)
FirstTags(p) == ~BadCountryCode(p) /\ BadTags(p)
FirstStatus(p) == ~BadCountryCode(p) /\ ~BadTags(p) /\ BadStatus(p)
FirstAddr(p) == ~BadCountryCode(p) /\ ~BadTags(p) /\ ~BadStatus(p) /\ Addressless(p)
C7_FirstFailingRuleCounts ==
    FilterDone =>
        /\ stats.num_bad_cc = Count(all_probes, FirstCc)
        /\ stats.num_bad_tags = Count(all_probes, FirstTags)
        /\ stats.num_bad_status = Count(all_probes, FirstStatus)
        /\ stats.num_addrless = Count(all_probes, FirstAddr)
        /\ stats.num_bad_cc + stats.num_bad_tags + stats.num_bad_status
             + stats.num_addrless = Count(all_probes, Disqualified)
C7_Witness ==
    /\ FilterDone
    /\ Len(all_probes) = 2
    /\ all_probes[1].country_code = "USA"
    /\ BadTags(all_probes[1]) /\ BadStatus(all_probes[1]) /\ Addressless(all_probes[1])
    /\ stats.num_bad_cc = 1
    /\ stats.num_bad_tags = 1

\* C8: once the filter has gone through a list, the four counters plus the
\* length of the output are at most the length of the input, and the gap is
\* the number of probes that pass rules 1-4 without a tag of the good-tag set;
\* those probes are neither in the output nor in a counter.
Dropped(p) == ~Disqualified(p) /\ NoGoodTag(p)
CounterSum ==
    stats.num_bad_cc + stats.num_bad_tags + stats.num_bad_status + stats.num_addrless
C8_CounterGap ==
    FilterDone =>
        /\ CounterSum + Len(stats.subset) <= Len(all_probes)
        /\ Len(all_probes) - (CounterSum + Len(stats.subset))
             = Count(all_probes, Dropped)
        /\ \A k \in DOMAIN all_probes :
             Dropped(all_probes[k]) => all_probes[k] \notin Range(stats.subset)
        /\ CounterSum = Count(all_probes, Disqualified)
C8_Witness ==
    /\ FilterDone
    /\ stats.returned
    /\ Count(all_probes, Dropped) = 1
    /\ Len(stats.subset) = 1
    /\ CounterSum = 0

(***************************************************************************)
(* print_probes: the probes are keyed by identifier (of two probes with    *)
(* the same identifier the later one stays), the identifiers are sorted,   *)
(* and one line "id,addr" is printed per identifier until an assertion     *)
(* fails.                                                                  *)
(***************************************************************************)
sorted(ids) ==
    [ j \in 1 .. Cardinality(ids) |->
        CHOOSE x \in ids : Cardinality({ y \in ids : y < x }) = j - 1 ]
print_probes_input_order(our_probes) ==
    [ raised |-> FALSE,
      lines |-> [ j \in DOMAIN our_probes |->
                    str(our_probes[j].id) \o ","
                      \o (IF our_probes[j].address_v4 = None
                          THEN our_probes[j].address_v6
                          ELSE our_probes[j].address_v4) ] ]
print_probes(our_probes) ==
    LET probe_by_id(id) ==
            our_probes[CHOOSE k \in DOMAIN our_probes :
                         /\ our_probes[k].id = id
                         /\ \A m \in DOMAIN our_probes :
                               our_probes[m].id = id => m <= k]
        ids == sorted({ our_probes[k].id : k \in DOMAIN our_probes })
        addr(probe) ==
            IF probe.address_v4 = None THEN probe.address_v6 ELSE probe.address_v4
        failing == { j \in DOMAIN ids : addr(probe_by_id(ids[j])) = None }
        printed_lines ==
            IF failing = { } THEN Len(ids)
            ELSE (CHOOSE j \in failing : \A m \in failing : j <= m) - 1
    IN  [ raised |-> failing # { },
          lines |-> [ j \in 1 .. printed_lines |->
                        str(ids[j]) \o "," \o addr(probe_by_id(ids[j])) ] ]

(***************************************************************************)
(* SpecSelect: main of select-probes.py (filter_probes, then print_probes) *)
(* and the filters and the first dispatch of a scheduler round, on every   *)
(* list of at most MaxProbes probes with distinct identifiers in any       *)
(* order.  The probes are in Europe/Berlin and the round is the one at     *)
(* noon there, so every eligible probe is ready.                           *)
(***************************************************************************)
IdPool == { 7 * k : k \in 1 .. (MaxProbes + 1) }
SelectTagLists == { << "home" >>, << "datacenter-3" >> }
SelectAddressPairs ==
    { << None, None >>, << "192.0.2.1", None >>, << None, "2001:db8::1" >>,
      << "192.0.2.2", "2001:db8::2" >> }
SelectLists(n) ==
    { [ k \in 1 .. n |->
          Probe(f[k][1], "DE", f[k][2], "Connected", f[k][3][1], f[k][3][2], 52, 13) ] :
      f \in { g \in [ 1 .. n -> IdPool \X SelectTagLists \X SelectAddressPairs ] :
                \A a, b \in 1 .. n : a # b => g[a][1] # g[b][1] } }
noon_round == 2

InitSelect ==
    /\ \E n \in 0 .. MaxProbes : all_probes \in SelectLists(n)
    /\ pc = "filter"
    /\ thirty_mins = noon_round
    /\ now = noon_round * round_secs
    /\ current_probes = << >>
    /\ repeat = 0
    /\ i = 0
    /\ calls = << >>
    /\ requests = << >>
    /\ runs = << >>
    /\ sleeps = 0
    /\ filter_count = noon_round
    /\ filtered_at = 0
    /\ any_failed = FALSE
    /\ ready_slots = { }
    /\ traceroutes = << >>
    /\ t1 = 0
    /\ is_ready = None
    /\ printed = << >>
    /\ tags_bad = None
    /\ stats = NoStats

\* main of select-probes.py after filter_probes has returned
PrintProbes ==
    /\ pc = "filter_probes done"
    /\ stats.returned
    /\ printed' = print_probes(stats.subset).lines
    /\ pc' = IF print_probes(stats.subset).raised
             THEN "print_probes AssertionError" ELSE "print_probes done"
    /\ UNCHANGED << campaign_vars, t1, is_ready, stats, tags_bad >>

NextSelect ==
    CallFilterByEligibility \/ CallFilterProbes \/ PrintProbes \/ Filter \/ RunBatch

SpecSelect == InitSelect /\ [][NextSelect]_vars

LineId(line) ==
    ParseInt(SubSeq(line, 1, (CHOOSE c \in CommaPositions(line) : TRUE) - 1))
LineAddr(line) ==
    SubSeq(line, (CHOOSE c \in CommaPositions(line) : TRUE) + 1, Len(line))

\* C13: a probe whose IPv4 and IPv6 addresses are both null is never in the
\* eligible subset of either script, in a ready set, in a dispatched batch
\* or in the selector's output, and the assertion 'addr is not None' of
\* print_probes never fails on the output of the eligibility filter.
C13_NoAddresslessProbe ==
    /\ \A k \in DOMAIN stats.subset : ~Addressless(stats.subset[k])
    /\ \A k \in DOMAIN current_probes : ~Addressless(current_probes[k])
    /\ \A j \in DOMAIN calls : \A k \in DOMAIN calls[j] : ~Addressless(calls[j][k])
    /\ \A j \in DOMAIN printed : \A k \in DOMAIN all_probes :
          Addressless(all_probes[k]) => LineId(printed[j]) # all_probes[k].id
    /\ pc # "print_probes AssertionError"
C13_Witness ==
    /\ pc = "print_probes done"
    /\ Len(all_probes) = 2
    /\ Addressless(all_probes[1])
    /\ all_probes[1].tags = << "home" >>
    /\ stats.num_addrless = 1
    /\ Len(printed) = 1
    /\ LineId(printed[1]) = all_probes[2].id

\* C14: for a list of eligible probes with distinct identifiers the selector
\* prints exactly one line per probe, in ascending identifier order, and
\* the address on a probe's line is its IPv4 address when that is non-null
\* and its IPv6 address otherwise.
C14_OneLinePerProbeSorted ==
    pc = "print_probes done" =>
        /\ Len(printed) = Len(stats.subset)
        /\ \A k \in DOMAIN stats.subset :
              \E j \in DOMAIN printed :
                  /\ LineId(printed[j]) = stats.subset[k].id
                  /\ LineAddr(printed[j]) =
                        IF stats.subset[k].address_v4 # None
                        THEN stats.subset[k].address_v4
                        ELSE stats.subset[k].address_v6
        /\ \A j, m \in DOMAIN printed :
              j < m => LineId(printed[j]) < LineId(printed[m])
C14_Witness ==
    /\ pc = "print_probes done"
    /\ Len(stats.subset) = 2
    /\ stats.subset[1].id > stats.subset[2].id
    /\ stats.subset[1].address_v4 # None /\ stats.subset[1].address_v6 # None
    /\ stats.subset[2].address_v4 = None
    /\ printed = << "7,2001:db8::1", "14,192.0.2.2" >>

(***************************************************************************)
(* SpecTags: tags_are_bad on every tag list of at most MaxTags tags of     *)
(* TagPool, followed by the eligibility filter of either script on a probe *)
(* that carries these tags and is acceptable in every other respect.       *)
(***************************************************************************)
TagPool ==
    { "datacenter-3", "data-center", "datacenter", "my-datacenter",
      "xdata-center-1", "data-cente", "Datacenter", "cloud", "cloudy", "core",
      "home" }
TaggedProbe(tags) ==
    Probe(1, "US", tags, "Connected", "192.0.2.1", None, 52, 13)

InitTags ==
    /\ \E n \in 0 .. MaxTags : \E tags \in [ 1 .. n -> TagPool ] :
          all_probes = << TaggedProbe(tags) >>
    /\ pc = "tags_are_bad"
    /\ thirty_mins = 0
    /\ now = 0
    /\ current_probes = << >>
    /\ repeat = 0
    /\ i = 0
    /\ calls = << >>
    /\ requests = << >>
    /\ runs = << >>
    /\ sleeps = 0
    /\ filter_count = 0
    /\ filtered_at = 0
    /\ any_failed = FALSE
    /\ ready_slots = { }
    /\ traceroutes = << >>
    /\ t1 = 0
    /\ is_ready = None
    /\ printed = << >>
    /\ tags_bad = None
    /\ stats = NoStats

CallTagsAreBad ==
    /\ pc = "tags_are_bad"
    /\ tags_bad' = tags_are_bad(all_probes[1].tags)
    /\ pc' = "filter"
    /\ UNCHANGED << campaign_vars, t1, is_ready, stats, printed >>

NextTags == CallTagsAreBad \/ CallFilterByEligibility \/ CallFilterProbes

SpecTags == InitTags /\ [][NextTags]_vars

BeginsWith(tag, prefix) ==
    \E n \in 0 .. Len(tag) : tag = prefix \o SubSeq(tag, Len(tag) - n + 1, Len(tag))
BadTagOrPrefix(tag) ==
    \/ tag \in { "system-geoloc-disputed", "core", "cloud", "vps", "ixp" }
    \/ BeginsWith(tag, "data-center")
    \/ BeginsWith(tag, "datacenter")

\* C16: tags_are_bad(tags) is true if and only if some tag is an entry of the
\* bad-tag set or begins with "data-center" or "datacenter"; a probe with a
\* valid country code and the single tag "datacenter-3" is rejected under
\* bad-tags, and a tag that contains "datacenter" only after its first
\* character does not make the tags bad.
C16_BadTagsByEntryOrPrefix ==
    LET tags == all_probes[1].tags
    IN  /\ pc # "tags_are_bad" =>
              /\ tags_bad = (\E k \in DOMAIN tags : BadTagOrPrefix(tags[k]))
              /\ tags = << "my-datacenter" >> => tags_bad = FALSE
              /\ tags = << "datacenter-3" >> => tags_bad = TRUE
        /\ FilterDone =>
              /\ stats.num_bad_tags = (IF tags_bad THEN 1 ELSE 0)
              /\ tags_bad => stats.subset = << >>
              /\ tags = << "datacenter-3" >> => stats.num_bad_tags = 1
C16_Witness ==
    /\ FilterDone
    /\ all_probes[1].tags = << "datacenter-3" >>
    /\ tags_bad = TRUE
    /\ stats.num_bad_tags = 1
    /\ stats.num_bad_cc = 0
    /\ stats.subset = << >>
====
